---- MODULE Spec2Model ----
(***************************************************************************)
(* Flag resolution and binding engine of the cli package: the value source *)
(* resolver (flagFromEnvOrFile), the choice registry (defaultChoice), the  *)
(* choice-binding value (choiceValue), the flag kinds Bool, Uint64, Path   *)
(* and Choice with their Apply methods, flagSet, and the execution context *)
(* (NewContext, Lineage, Value, IsSet and the typed accessors).            *)
(*                                                                         *)
(* Strings that the code takes apart (environment variable names, file     *)
(* paths) are sequences of one-character strings; strings that are only   *)
(* compared or parsed as a whole (values, tokens, flag names) are strings. *)
(***************************************************************************)
EXTENDS Integers, Sequences, FiniteSets

(* Bounds of the model. *)
MaxEnvVars == 2
MaxPathLen == 3
MaxVal == 3
MaxSets == 2

VARIABLES
  environ,   \* the process environment: existing variable name -> value
  files,     \* the file system: readable path -> contents
  rIn,       \* resolver run: the arguments of flagFromEnvOrFile
  rOut,      \* resolver run: its result, once it has run
  cIn,       \* registry run: the Choices mapping handed to NewChoice
  cReg       \* registry run: the defaultChoice built from it

pureVars == <<rIn, rOut, cIn, cReg>>

(***************************************************************************)
(* strings                                                                 *)
(***************************************************************************)
RECURSIVE TrimLeft(_)
TrimLeft(s) ==
  IF s # <<>> /\ Head(s) = " " THEN TrimLeft(Tail(s)) ELSE s

RECURSIVE TrimRight(_)
TrimRight(s) ==
  IF s # <<>> /\ s[Len(s)] = " " THEN TrimRight(SubSeq(s, 1, Len(s) - 1)) ELSE s

\* strings.TrimSpace
TrimSpace(s) == TrimRight(TrimLeft(s))

RECURSIVE SplitFrom(_, _)
SplitFrom(s, cur) ==
  IF s = <<>> THEN <<cur>>
  ELSE IF Head(s) = "," THEN <<cur>> \o SplitFrom(Tail(s), <<>>)
  ELSE SplitFrom(Tail(s), Append(cur, Head(s)))

\* strings.Split(filePath, ","): never empty, "" splits into [""]
SplitComma(s) == SplitFrom(s, <<>>)

(***************************************************************************)
(* the value source resolver                                               *)
(***************************************************************************)
NotFound == [val |-> "", ok |-> FALSE]
Found(v) == [val |-> v, ok |-> TRUE]

\* syscall.Getenv: the empty name never exists
Getenv(name) ==
  IF name # <<>> /\ name \in DOMAIN environ THEN Found(environ[name]) ELSE NotFound

\* ioutil.ReadFile: the whole contents, or an error
ReadFile(path) ==
  IF path \in DOMAIN files THEN Found(files[path]) ELSE NotFound

RECURSIVE envLoop(_, _)
envLoop(envVars, i) ==
  IF i > Len(envVars) THEN NotFound
  ELSE LET r == Getenv(TrimSpace(envVars[i]))
       IN IF r.ok THEN r ELSE envLoop(envVars, i + 1)

RECURSIVE fileLoop(_, _)
fileLoop(cands, j) ==
  IF j > Len(cands) THEN NotFound
  ELSE LET r == ReadFile(cands[j])
       IN IF r.ok THEN r ELSE fileLoop(cands, j + 1)

\* faulty variant: an existing but empty environment variable does not match
flagFromEnvOrFile_nonEmpty(envVars, filePath) ==
  LET e == envLoop(envVars, 1)
  IN IF e.ok /\ e.val # "" THEN e ELSE fileLoop(SplitComma(filePath), 1)

flagFromEnvOrFile(envVars, filePath) ==
  LET e == envLoop(envVars, 1)
  IN IF e.ok THEN e ELSE fileLoop(SplitComma(filePath), 1)

(***************************************************************************)
(* the choice registry                                                     *)
(***************************************************************************)
\* interface{} values: nil, a plain value, a pointer to a cell, a nil pointer
INil == [k |-> "nil", v |-> 0, cell |-> 0]
IInt(x) == [k |-> "int", v |-> x, cell |-> 0]
IPtr(c) == [k |-> "ptr", v |-> 0, cell |-> c]
INilPtr == [k |-> "nilptr", v |-> 0, cell |-> 0]

RECURSIVE invert(_, _, _)
invert(v, order, i) ==
  IF i = 0 THEN [x \in {} |-> ""]
  ELSE LET rest == invert(v, order, i - 1)
           key == IInt(v[order[i]])
       IN [x \in DOMAIN rest \cup {key} |-> IF x = key THEN order[i] ELSE rest[x]]

\* defaultChoice.init: order1 and order2 are the orders in which the two range
\* loops happen to iterate over the map
defaultChoice_init(v, order1, order2) ==
  [vMap |-> v, sMap |-> invert(v, order1, Len(order1)), ss |-> order2]

\* faulty variant: absent tokens decode to the zero value instead of nil
FromString_zero(c, s) ==
  IF s \in DOMAIN c.vMap THEN IInt(c.vMap[s]) ELSE IInt(0)

FromString(c, s) ==
  IF s \in DOMAIN c.vMap THEN IInt(c.vMap[s]) ELSE INil

ToString(c, i) ==
  IF i \in DOMAIN c.sMap THEN c.sMap[i] ELSE ""

Strings(c) == c.ss

(***************************************************************************)
(* values and their conversions                                            *)
(***************************************************************************)
VBool(b) == [k |-> "bool", v |-> b, cell |-> 0]
VUint(n) == [k |-> "uint", v |-> n, cell |-> 0]
VStr(s) == [k |-> "str", v |-> s, cell |-> 0]

\* strconv.ParseBool
ParseBool(s) ==
  IF s \in {"1", "t", "T", "TRUE", "true", "True"} THEN [ok |-> TRUE, v |-> TRUE]
  ELSE IF s \in {"0", "f", "F", "FALSE", "false", "False"} THEN [ok |-> TRUE, v |-> FALSE]
  ELSE [ok |-> FALSE, v |-> FALSE]

\* strconv.FormatBool
FormatBool(b) == IF b THEN "true" ELSE "false"

\* the numerals the model reads, with base prefixes as ParseUint(s, 0, 64) takes them
UintText ==
  [s \in {"0", "1", "7", "30", "0x1e", "07"} |->
     CASE s = "0" -> 0 [] s = "1" -> 1 [] s \in {"7", "07"} -> 7 [] OTHER -> 30]

\* strconv.ParseUint(s, 0, 64): a syntax error yields 0
ParseUint(s) ==
  IF s \in DOMAIN UintText THEN [ok |-> TRUE, v |-> UintText[s]] ELSE [ok |-> FALSE, v |-> 0]

\* strconv.FormatUint(v, 10)
FormatUint(n) ==
  CASE n = 0 -> "0" [] n = 1 -> "1" [] n = 7 -> "7" [] n = 30 -> "30"

(***************************************************************************)
(* flag names                                                              *)
(***************************************************************************)
RECURSIVE stripName(_)
\* commaWhitespace.ReplaceAllString(part, ""): cut at the first comma or space
stripName(s) ==
  IF s = <<>> \/ Head(s) \in {",", " "} THEN <<>>
  ELSE <<Head(s)>> \o stripName(Tail(s))

flagNames(name, aliases) ==
  [j \in 1..(Len(aliases) + 1) |-> stripName((<<name>> \o aliases)[j])]

ChoiceFlag_Names(f) == Append(f.Aliases, f.Name)

\* Names() of BoolFlag, Uint64Flag, PathFlag and ChoiceFlag
Names(f) ==
  IF f.kind = "choice" THEN ChoiceFlag_Names(f) ELSE flagNames(f.Name, f.Aliases)

(***************************************************************************)
(* the choice-binding value: value is the reflect.Value it wraps           *)
(*   nil      the invalid Value, reflect.ValueOf(nil)                      *)
(*   int      a plain value: not addressable                               *)
(*   ptr      a pointer to a cell                                          *)
(*   nilptr   a typed nil pointer                                          *)
(***************************************************************************)
isNil(rv) == rv.k = "nilptr"
IsValid(rv) == rv.k # "nil"

interfaceOf(rv, m) == IF rv.k = "ptr" THEN m[rv.cell] ELSE rv

newChoiceValue(val) == val

\* faulty variant: the destination is taken as it is, without the two checks
newChoiceValueSwap_unchecked(val, p, m) ==
  [err |-> "", value |-> p,
   mem |-> IF val # INil /\ p.k = "ptr" THEN [m EXCEPT ![p.cell] = val] ELSE m]

newChoiceValueSwap(val, p, m) ==
  IF p.k \notin {"ptr", "nilptr"} THEN [err |-> "setup", value |-> INil, mem |-> m]
  ELSE IF p.k = "nilptr" THEN [err |-> "setup", value |-> INil, mem |-> m]
  ELSE [err |-> "", value |-> p,
        mem |-> IF val # INil THEN [m EXCEPT ![p.cell] = val] ELSE m]

\* setValue: reflect's Set panics on a Value that is not addressable
setValue(rv, val, m) ==
  IF rv.k = "ptr" THEN [panic |-> FALSE, mem |-> [m EXCEPT ![rv.cell] = val]]
  ELSE [panic |-> TRUE, mem |-> m]

choiceValue_Set(rv, choice, s, m) ==
  IF ~IsValid(rv) \/ isNil(rv) THEN [err |-> "", panic |-> FALSE, mem |-> m]
  ELSE LET v == FromString(choice, s)
       IN IF v # INil
          THEN LET w == setValue(rv, v, m)
               IN [err |-> "", panic |-> w.panic, mem |-> w.mem]
          ELSE [err |-> "parse", panic |-> FALSE, mem |-> m]

choiceValue_String(rv, choice, m) ==
  IF ~IsValid(rv) \/ isNil(rv) THEN "" ELSE ToString(choice, interfaceOf(rv, m))

choiceValue_Value(rv, m) ==
  IF ~IsValid(rv) \/ isNil(rv) THEN INil ELSE interfaceOf(rv, m)

\* choiceValue.Get: the binding value itself
choiceValue_Get(rv) == [k |-> "choiceValue", v |-> rv, cell |-> 0]

(***************************************************************************)
(* flag declarations                                                       *)
(***************************************************************************)
NoChoice == [nil |-> TRUE, c |-> <<>>]
TheChoice(c) == [nil |-> FALSE, c |-> c]

\* the fields of BoolFlag, Uint64Flag, PathFlag and ChoiceFlag the engine reads
Flag(kind, name, aliases, envVars, filePath, value, dest, choice) ==
  [kind |-> kind, Name |-> name, Aliases |-> aliases, EnvVars |-> envVars,
   FilePath |-> filePath, Required |-> FALSE, Value |-> value,
   Destination |-> dest, Choice |-> choice]

Extend(f, key, val) == [x \in DOMAIN f \cup {key} |-> IF x = key THEN val ELSE f[x]]

\* flag.FlagSet.Var: registering a name twice panics
Var(acc, name, entry) ==
  IF name \in DOMAIN acc.formal THEN [acc EXCEPT !.panic = TRUE]
  ELSE [acc EXCEPT !.formal = Extend(acc.formal, name, entry)]

RECURSIVE primNames(_, _, _, _, _, _)
\* the name loop of BoolFlag.Apply, Uint64Flag.Apply and PathFlag.Apply:
\* set.XxxVar(f.Destination, name, f.Value, ...) stores the value through the
\* destination and registers it; set.Xxx(name, f.Value, ...) registers a new cell
primNames(f, st, names, j, acc, owner) ==
  IF j > Len(names) \/ acc.panic THEN acc
  ELSE IF f.Destination # INil
       THEN primNames(f, st, names, j + 1,
              Var([acc EXCEPT !.mem[f.Destination.cell] = st.Value], names[j],
                  [kind |-> f.kind, val |-> f.Destination, owner |-> owner]),
              owner)
       ELSE primNames(f, st, names, j + 1,
              Var(acc, names[j], [kind |-> f.kind, val |-> st.Value, owner |-> owner]),
              owner)

Applied(err, acc, st) ==
  [err |-> err, panic |-> acc.panic, st |-> st, formal |-> acc.formal, mem |-> acc.mem]

\* the value a flag keeps: the parsed one and HasBeenSet, or what it had
Resolved(take, val, st) == IF take THEN [Value |-> val, HasBeenSet |-> TRUE] ELSE st

\* Apply of a flag kind after the resolver returned r and the parser p:
\* fail reports a parse error, take stores the parsed value
applyPrim(f, st, acc0, owner, fail, take, val) ==
  IF fail THEN Applied("parse", acc0, st)
  ELSE Applied("", primNames(f, Resolved(take, val, st), Names(f), 1, acc0, owner),
               Resolved(take, val, st))

boolParsed(f, st, acc0, owner, r, p) ==
  applyPrim(f, st, acc0, owner, r.ok /\ r.val # "" /\ ~p.ok, r.ok /\ r.val # "", VBool(p.v))

boolResolved(f, st, acc0, owner, r) == boolParsed(f, st, acc0, owner, r, ParseBool(r.val))

BoolFlag_Apply(f, st, formal, m, owner) ==
  boolResolved(f, st, [formal |-> formal, mem |-> m, panic |-> FALSE], owner,
               flagFromEnvOrFile(f.EnvVars, f.FilePath))

uint64Parsed(f, st, acc0, owner, r, p) ==
  applyPrim(f, st, acc0, owner, r.ok /\ r.val # "" /\ ~p.ok, r.ok /\ r.val # "", VUint(p.v))

uint64Resolved(f, st, acc0, owner, r) ==
  uint64Parsed(f, st, acc0, owner, r, ParseUint(r.val))

Uint64Flag_Apply(f, st, formal, m, owner) ==
  uint64Resolved(f, st, [formal |-> formal, mem |-> m, panic |-> FALSE], owner,
                 flagFromEnvOrFile(f.EnvVars, f.FilePath))

\* faulty variant: the resolved value is stored but the flag is not marked as set
pathResolved_noMark(f, st, acc0, owner, r) ==
  applyPrim(f, [Value |-> IF r.ok THEN VStr(r.val) ELSE st.Value,
                HasBeenSet |-> st.HasBeenSet], acc0, owner, FALSE, FALSE, VStr(r.val))

pathResolved(f, st, acc0, owner, r) ==
  applyPrim(f, st, acc0, owner, FALSE, r.ok, VStr(r.val))

PathFlag_Apply(f, st, formal, m, owner) ==
  pathResolved(f, st, [formal |-> formal, mem |-> m, panic |-> FALSE], owner,
               flagFromEnvOrFile(f.EnvVars, f.FilePath))

\* set.Var(v, name, f.Usage) after newChoiceValueSwap returned sw
swapped(acc, name, owner, sw) ==
  IF sw.err # "" THEN [acc EXCEPT !.err = "setup", !.mem = sw.mem]
  ELSE Var([acc EXCEPT !.mem = sw.mem], name,
           [kind |-> "choice", val |-> sw.value, owner |-> owner])

\* one round of the name loop of ChoiceFlag.Apply
choiceName(f, st, name, acc, owner) ==
  IF f.Destination # INil
  THEN swapped(acc, name, owner, newChoiceValueSwap(st.Value, f.Destination, acc.mem))
  ELSE Var(acc, name, [kind |-> "choice", val |-> newChoiceValue(st.Value), owner |-> owner])

RECURSIVE choiceNames(_, _, _, _, _, _)
\* the name loop of ChoiceFlag.Apply; acc.err stops it
choiceNames(f, st, names, j, acc, owner) ==
  IF j > Len(names) \/ acc.panic \/ acc.err # "" THEN acc
  ELSE choiceNames(f, st, names, j + 1, choiceName(f, st, names[j], acc, owner), owner)

choiceRegistered(acc, st) == Applied(acc.err, acc, st)

choiceDecoded(f, st, acc0, owner, r, v) ==
  IF r.ok /\ v = INil THEN Applied("parse", acc0, st)
  ELSE choiceRegistered(
         choiceNames(f, Resolved(r.ok, v, st), Names(f), 1, acc0, owner),
         Resolved(r.ok, v, st))

choiceResolved(f, st, acc0, owner, r) ==
  choiceDecoded(f, st, acc0, owner, r, FromString(f.Choice.c, r.val))

ChoiceFlag_Apply(f, st, formal, m, owner) ==
  IF f.Choice.nil
  THEN Applied("setup", [formal |-> formal, mem |-> m, panic |-> FALSE, err |-> ""], st)
  ELSE choiceResolved(f, st, [formal |-> formal, mem |-> m, panic |-> FALSE, err |-> ""],
                      owner, flagFromEnvOrFile(f.EnvVars, f.FilePath))

\* Flag.Apply, dispatched on the flag kind
Apply(f, st, formal, m, owner) ==
  CASE f.kind = "bool" -> BoolFlag_Apply(f, st, formal, m, owner)
    [] f.kind = "uint64" -> Uint64Flag_Apply(f, st, formal, m, owner)
    [] f.kind = "path" -> PathFlag_Apply(f, st, formal, m, owner)
    [] f.kind = "choice" -> ChoiceFlag_Apply(f, st, formal, m, owner)

RECURSIVE flagSetLoop(_, _, _)

\* flagSet after f.Apply(set) returned r for flag i: an error ends the loop
\* (faulty variant: the error is dropped and the loop goes on)
flagApplied_skipFailed(fl, i, acc, r) ==
  IF r.panic
  THEN [sts |-> acc.sts, formal |-> r.formal, mem |-> r.mem, err |-> "",
        panic |-> TRUE, next |-> i]
  ELSE flagSetLoop(fl, i + 1,
         [sts |-> [acc.sts EXCEPT ![i] = r.st], formal |-> r.formal, mem |-> r.mem,
          err |-> "", panic |-> FALSE, next |-> i + 1])

flagApplied(fl, i, acc, r) ==
  IF r.err # "" \/ r.panic
  THEN [sts |-> [acc.sts EXCEPT ![i] = r.st], formal |-> r.formal, mem |-> r.mem,
        err |-> r.err, panic |-> r.panic, next |-> i]
  ELSE flagSetLoop(fl, i + 1,
         [sts |-> [acc.sts EXCEPT ![i] = r.st], formal |-> r.formal, mem |-> r.mem,
          err |-> "", panic |-> FALSE, next |-> i + 1])

\* the loop of flagSet: acc.sts are the declarations' Value and HasBeenSet,
\* acc.next the index of the first flag not applied
flagSetLoop(fl, i, acc) ==
  IF i > Len(fl) THEN acc
  ELSE flagApplied(fl, i, acc, Apply(fl[i], acc.sts[i], acc.formal, acc.mem, i))

flagSet(fl, sts, m) ==
  flagSetLoop(fl, 1, [sts |-> sts, formal |-> <<>>, mem |-> m, err |-> "",
                      panic |-> FALSE, next |-> 1])

(***************************************************************************)
(* flag.FlagSet.Set, as Context.Set, the parser and copyFlag call it       *)
(***************************************************************************)
\* the cell behind a registered value: the destination, or the entry's own
store(fs, name, val, m) ==
  IF fs.formal[name].val.k = "ptr"
  THEN [fs |-> fs, mem |-> [m EXCEPT ![fs.formal[name].val.cell] = val]]
  ELSE [fs |-> [fs EXCEPT !.formal[name].val = val], mem |-> m]

\* a Set that parsed p stored w: boolValue.Set and uint64Value.Set assign the
\* parser's result also when it reports an error
parsedSet(ok, w) ==
  [err |-> IF ok THEN "" ELSE "parse", panic |-> FALSE, fs |-> w.fs, mem |-> w.mem]

boolValue_Set(fs, name, m, p) == parsedSet(p.ok, store(fs, name, VBool(p.v), m))

uint64Value_Set(fs, name, m, p) == parsedSet(p.ok, store(fs, name, VUint(p.v), m))

stringValue_Set(fs, name, value, m) == parsedSet(TRUE, store(fs, name, VStr(value), m))

choiceSet(fs, r) == [err |-> r.err, panic |-> r.panic, fs |-> fs, mem |-> r.mem]

\* flag.Value.Set(value) of the value registered under name
Value_Set(fs, name, value, m, fl) ==
  CASE fs.formal[name].kind = "bool" -> boolValue_Set(fs, name, m, ParseBool(value))
    [] fs.formal[name].kind = "uint64" -> uint64Value_Set(fs, name, m, ParseUint(value))
    [] fs.formal[name].kind = "path" -> stringValue_Set(fs, name, value, m)
    [] fs.formal[name].kind = "choice" ->
         choiceSet(fs, choiceValue_Set(fs.formal[name].val,
                                       fl[fs.formal[name].owner].Choice.c, value, m))

\* flag.FlagSet.Set after the value's Set returned r: a success marks the name
valueSet(name, r) ==
  IF r.err # "" \/ r.panic THEN r
  ELSE [r EXCEPT !.fs.actual = r.fs.actual \cup {name}]

FlagSet_Set(fs, name, value, m, fl) ==
  IF name \notin DOMAIN fs.formal
  THEN [err |-> "no such flag", panic |-> FALSE, fs |-> fs, mem |-> m]
  ELSE valueSet(name, Value_Set(fs, name, value, m, fl))

(***************************************************************************)
(* normalizeFlags: one value for all the name forms of a flag              *)
(***************************************************************************)
\* strings.Trim(name, " ")
Trim(s) == TrimRight(TrimLeft(s))

\* ff.Value.String() of the value registered as e, read in the memory m
Value_String(e, fl, m) ==
  CASE e.kind = "bool" -> FormatBool(interfaceOf(e.val, m).v)
    [] e.kind = "uint64" -> FormatUint(interfaceOf(e.val, m).v)
    [] e.kind = "path" -> interfaceOf(e.val, m).v
    [] e.kind = "choice" -> choiceValue_String(e.val, fl[e.owner].Choice.c, m)

NoFlag == [nil |-> TRUE, name |-> <<>>]

\* flag.FlagSet.Lookup: the *flag.Flag registered under name, or nil
FlagSet_Lookup(fs, name) ==
  IF name \in DOMAIN fs.formal THEN [nil |-> FALSE, name |-> name] ELSE NoFlag

\* faulty variant: nothing is copied
copyFlag_dropped(name, ff, acc, fl, r) == acc

\* copyFlag after set.Set(name, ff.Value.String()) returned r: the error is dropped
copyFlag(name, ff, acc, fl, r) == [acc EXCEPT !.fs = r.fs, !.mem = r.mem, !.panic = r.panic]

RECURSIVE scanForms(_, _, _, _, _)
\* the first loop over parts: ff is the visited form, a second one is an error
scanForms(parts, j, visited, fs, ff) ==
  IF j > Len(parts) THEN [err |-> "", ff |-> ff]
  ELSE IF Trim(parts[j]) \in visited
       THEN IF ~ff.nil THEN [err |-> "two forms", ff |-> ff]
            ELSE scanForms(parts, j + 1, visited, fs, FlagSet_Lookup(fs, Trim(parts[j])))
       ELSE scanForms(parts, j + 1, visited, fs, ff)

RECURSIVE copyForms(_, _, _, _, _, _)
\* the second loop over parts: every form not visited gets the value of ff
copyForms(parts, j, visited, ff, acc, fl) ==
  IF j > Len(parts) \/ acc.panic THEN acc
  ELSE IF Trim(parts[j]) \notin visited
       THEN copyForms(parts, j + 1, visited, ff,
              copyFlag(Trim(parts[j]), ff, acc, fl,
                       FlagSet_Set(acc.fs, Trim(parts[j]),
                                   Value_String(acc.fs.formal[ff], fl, acc.mem),
                                   acc.mem, fl)),
              fl)
       ELSE copyForms(parts, j + 1, visited, ff, acc, fl)

RECURSIVE normLoop(_, _, _, _)

\* one flag of normalizeFlags after its first loop returned sc
scanned(fl, i, visited, acc, sc) ==
  IF sc.err # "" THEN [acc EXCEPT !.err = sc.err]
  ELSE IF sc.ff.nil THEN normLoop(fl, i + 1, visited, acc)
  ELSE normLoop(fl, i + 1, visited,
                copyForms(Names(fl[i]), 1, visited, sc.ff.name, acc, fl))

\* the loop over flags: a flag with one name is skipped
normLoop(fl, i, visited, acc) ==
  IF i > Len(fl) \/ acc.panic THEN acc
  ELSE IF Len(Names(fl[i])) = 1 THEN normLoop(fl, i + 1, visited, acc)
  ELSE scanned(fl, i, visited, acc, scanForms(Names(fl[i]), 1, visited, acc.fs, NoFlag))

\* visited is the set of names set.Visit reports when normalizeFlags starts
normalizeFlags(fl, fs, m) ==
  normLoop(fl, 1, fs.actual, [fs |-> fs, mem |-> m, err |-> "", panic |-> FALSE])

(***************************************************************************)
(* the program state                                                       *)
(***************************************************************************)
VARIABLES
  prog,    \* scope -> the flag declarations of the app (scope 1) or subcommand
  flags,   \* scope -> index -> the declaration's Value and HasBeenSet
  sets,    \* scope -> the flag.FlagSet built for it: formal, actual (visited),
           \* and how flagSet ended: ran, err, next (first flag not applied)
  mem,     \* cell -> value: destinations and pointed-to defaults
  ctxs,    \* the contexts created so far
  pc,      \* the scope being set up and the step it is at
  nsets,   \* number of Set calls so far
  last     \* the last operation and its outcome

mainVars == <<prog, flags, sets, mem, ctxs, pc, nsets, last>>
vars == <<environ, files, pureVars, mainVars>>

NilSet == -1
FreshSet == 0
NilCmd == -1
EmptyCmd == 0
NilApp == 0
TheApp == 1

\* the flag.FlagSet a context refers to; FreshSet is &flag.FlagSet{}
FS(id) == IF id = FreshSet THEN [formal |-> <<>>, actual |-> {}] ELSE sets[id]

\* Command.Flags: &Command{} has none, command s has the flags of scope s
CommandFlags(cmd) == IF cmd = EmptyCmd THEN {} ELSE {<<cmd, i>> : i \in 1..Len(prog[cmd])}

\* App.Flags: the flags of scope 1
AppFlags == {<<1, i>> : i \in 1..Len(prog[1])}

\* NewContext: the new context is the last of the result
NewContext(app, set, parentCtx, cs) ==
  LET cs1 == IF parentCtx # 0 /\ cs[parentCtx].flagSet = NilSet
             THEN [cs EXCEPT ![parentCtx].flagSet = FreshSet] ELSE cs
  IN Append(cs1, [App |-> app, flagSet |-> set, parentContext |-> parentCtx,
                  Command |-> EmptyCmd])

\* faulty variant: the walk stops at the parent
Lineage_upToParent(c) ==
  IF c = 0 THEN <<>>
  ELSE IF ctxs[c].parentContext = 0 THEN <<c>> ELSE <<c, ctxs[c].parentContext>>

RECURSIVE Lineage(_)
Lineage(c) == IF c = 0 THEN <<>> ELSE <<c>> \o Lineage(ctxs[c].parentContext)

\* faulty variant: every registered name counts as visited
flagSetLookupWithValueSet_declared(fsid, name) ==
  IF name \in DOMAIN FS(fsid).formal
  THEN [nil |-> FALSE, entry |-> FS(fsid).formal[name]]
  ELSE [nil |-> TRUE, entry |-> <<>>]

flagSetLookupWithValueSet(fsid, name) ==
  IF name \in FS(fsid).actual
  THEN [nil |-> FALSE, entry |-> FS(fsid).formal[name]]
  ELSE [nil |-> TRUE, entry |-> <<>>]

RECURSIVE lookupLoop(_, _, _)
lookupLoop(lin, j, name) ==
  IF j > Len(lin) THEN NilSet
  ELSE IF name \in DOMAIN FS(ctxs[lin[j]].flagSet).formal THEN ctxs[lin[j]].flagSet
  ELSE lookupLoop(lin, j + 1, name)

lookupFlagSet(c, name) == lookupLoop(Lineage(c), 1, name)

\* f.Value.(flag.Getter).Get()
Get(e) ==
  IF e.kind = "choice" THEN choiceValue_Get(e.val)
  ELSE IF e.val.k = "ptr" THEN mem[e.val.cell] ELSE e.val

\* f.Value.String()
String(e, fl) ==
  CASE e.kind = "bool" -> FormatBool(Get(e).v)
    [] e.kind = "uint64" -> FormatUint(Get(e).v)
    [] e.kind = "path" -> Get(e).v
    [] e.kind = "choice" -> choiceValue_String(e.val, fl[e.owner].Choice.c, mem)

RECURSIVE findLoop(_, _, _)
\* the walk shared by Value, Bool, Uint64 and Path: the flag it stops at
findLoop(lin, j, name) ==
  IF j > Len(lin) THEN [nil |-> TRUE, entry |-> <<>>, set |-> NilSet]
  ELSE LET fs == lookupFlagSet(lin[j], name)
           f == IF fs # NilSet THEN flagSetLookupWithValueSet(fs, name)
                ELSE [nil |-> TRUE, entry |-> <<>>]
       IN IF ~f.nil THEN [nil |-> FALSE, entry |-> f.entry, set |-> fs]
          ELSE findLoop(lin, j + 1, name)

\* faulty variant: only the calling context's own scope is consulted
Context_Value_local(c, name) ==
  LET f == findLoop(<<c>>, 1, name) IN IF f.nil THEN INil ELSE Get(f.entry)

Context_Value(c, name) ==
  LET f == findLoop(Lineage(c), 1, name) IN IF f.nil THEN INil ELSE Get(f.entry)

lookupBool(e, fl) ==
  LET p == ParseBool(String(e, fl)) IN IF ~p.ok THEN FALSE ELSE p.v

Context_Bool(c, name) ==
  LET f == findLoop(Lineage(c), 1, name)
  IN IF f.nil THEN FALSE ELSE lookupBool(f.entry, prog[f.set])

lookupUint64(e, fl) ==
  LET p == ParseUint(String(e, fl)) IN IF ~p.ok THEN 0 ELSE p.v

Context_Uint64(c, name) ==
  LET f == findLoop(Lineage(c), 1, name)
  IN IF f.nil THEN 0 ELSE lookupUint64(f.entry, prog[f.set])

lookupPath(e, fl) == String(e, fl)

Context_Path(c, name) ==
  LET f == findLoop(Lineage(c), 1, name)
  IN IF f.nil THEN "" ELSE lookupPath(f.entry, prog[f.set])

Context_Choice(c, name) ==
  LET v == Context_Value(c, name)
  IN IF v.k = "choiceValue" THEN choiceValue_Value(v.v, mem) ELSE INil

\* ChoiceFlag.GetValue
ChoiceFlag_GetValue(f, st) == ToString(f.Choice.c, st.Value)

\* some flag of the list is set (f.IsSet()) and has the name among its Names()
setAndNamed(fl, name) ==
  \E x \in fl : /\ flags[x[1]][x[2]].HasBeenSet
                /\ \E j \in 1..Len(Names(prog[x[1]][x[2]])) : Names(prog[x[1]][x[2]])[j] = name

RECURSIVE isSetLoop(_, _, _)
isSetLoop(lin, j, name) ==
  IF j > Len(lin) THEN FALSE
  ELSE IF ctxs[lin[j]].Command = NilCmd THEN isSetLoop(lin, j + 1, name)
  ELSE IF setAndNamed(CommandFlags(ctxs[lin[j]].Command), name) THEN TRUE
  ELSE IF ~flagSetLookupWithValueSet(ctxs[lin[j]].flagSet, name).nil THEN TRUE
  ELSE isSetLoop(lin, j + 1, name)

\* faulty variant: only names visited on the command line count
Context_IsSet_visitedOnly(c, name) ==
  \E j \in 1..Len(Lineage(c)) :
     ~flagSetLookupWithValueSet(ctxs[Lineage(c)[j]].flagSet, name).nil

Context_IsSet(c, name) ==
  IF isSetLoop(Lineage(c), 1, name) THEN TRUE
  ELSE IF ctxs[c].App # NilApp
       THEN IF setAndNamed(AppFlags, name) THEN TRUE
            ELSE ~flagSetLookupWithValueSet(ctxs[c].flagSet, name).nil
       ELSE FALSE

RECURSIVE requiredNames(_, _, _, _)
\* the loop over f.Names() of checkRequiredFlags: the name to report and
\* whether some name form is set
requiredNames(c, names, j, acc) ==
  IF j > Len(names) THEN acc
  ELSE requiredNames(c, names, j + 1,
         [flagName |-> IF Len(names[j]) > 1 THEN names[j] ELSE acc.flagName,
          flagPresent |-> acc.flagPresent \/ Context_IsSet(c, TrimSpace(names[j]))])

\* one required flag of checkRequiredFlags after its name loop returned r
requiredChecked(missing, r) ==
  IF ~r.flagPresent /\ r.flagName # <<>> THEN Append(missing, r.flagName) ELSE missing

RECURSIVE requiredLoop(_, _, _, _)
requiredLoop(c, fl, i, missing) ==
  IF i > Len(fl) THEN missing
  ELSE IF ~fl[i].Required THEN requiredLoop(c, fl, i + 1, missing)
  ELSE requiredLoop(c, fl, i + 1,
         requiredChecked(missing,
           requiredNames(c, Names(fl[i]), 1, [flagName |-> <<>>, flagPresent |-> FALSE])))

\* Context.checkRequiredFlags: the missing names, empty for a nil result
Context_checkRequiredFlags(c, fl) == requiredLoop(c, fl, 1, <<>>)

(***************************************************************************)
(* inputs of the pure runs                                                 *)
(***************************************************************************)
SeqsUpTo(S, n) == UNION {[1..k -> S] : k \in 0..n}

Perms(S) == {p \in [1..Cardinality(S) -> S] : \A x \in S : \E i \in DOMAIN p : p[i] = x}

EnvNameU == {<<"A">>, <<"B">>, <<" ", "A">>, <<"B", " ">>}
EnvironU == {e \in UNION {[D -> {"", "x", "y"}] : D \in SUBSET {<<"A">>, <<"B">>}} :
               /\ (<<"A">> \in DOMAIN e => e[<<"A">>] \in {"", "x"})
               /\ (<<"B">> \in DOMAIN e => e[<<"B">>] = "y")}
PathCharU == {"f", "g", ","}
FilesU == {f \in UNION {[D -> {"p", "q"}] : D \in SUBSET {<<"f">>, <<"g">>}} :
             /\ (<<"f">> \in DOMAIN f => f[<<"f">>] = "p")
             /\ (<<"g">> \in DOMAIN f => f[<<"g">>] = "q")}

TokenU == {"fast", "slow", ""}
ChoicesU == UNION {[D -> 1..MaxVal] : D \in SUBSET TokenU}

NoReg == [vMap |-> <<>>, sMap |-> <<>>, ss |-> <<>>, built |-> FALSE]
NoRun == [val |-> "", ok |-> FALSE, done |-> FALSE]

NoOp == [op |-> "", scope |-> 0, name |-> <<>>, tok |-> "", err |-> "", at |-> 0,
         pre |-> INil]

\* the program state of the runs that only call a pure function
Idle ==
  /\ prog = <<>>
  /\ flags = <<>>
  /\ sets = <<>>
  /\ mem = <<>>
  /\ ctxs = <<>>
  /\ pc = [scope |-> 0, phase |-> "idle"]
  /\ nsets = 0
  /\ last = NoOp

(***************************************************************************)
(* SpecResolver: one call of flagFromEnvOrFile                             *)
(***************************************************************************)
InitResolver ==
  /\ environ \in EnvironU
  /\ files \in FilesU
  /\ rIn \in [envVars : SeqsUpTo(EnvNameU, MaxEnvVars),
              filePath : SeqsUpTo(PathCharU, MaxPathLen)]
  /\ rOut = NoRun
  /\ cIn = <<>>
  /\ cReg = NoReg
  /\ Idle

Resolve ==
  /\ ~rOut.done
  /\ LET r == flagFromEnvOrFile(rIn.envVars, rIn.filePath)
     IN rOut' = [val |-> r.val, ok |-> r.ok, done |-> TRUE]
  /\ UNCHANGED <<environ, files, rIn, cIn, cReg, mainVars>>

NextResolver == Resolve

SpecResolver == InitResolver /\ [][NextResolver]_vars

(***************************************************************************)
(* SpecChoice: one call of NewChoice                                       *)
(***************************************************************************)
InitChoice ==
  /\ environ = <<>>
  /\ files = <<>>
  /\ rIn = [envVars |-> <<>>, filePath |-> <<>>]
  /\ rOut = NoRun
  /\ cIn \in ChoicesU
  /\ cReg = NoReg
  /\ Idle

NewChoice ==
  /\ ~cReg.built
  /\ \E o1 \in Perms(DOMAIN cIn), o2 \in Perms(DOMAIN cIn) :
       LET c == defaultChoice_init(cIn, o1, o2)
       IN cReg' = [vMap |-> c.vMap, sMap |-> c.sMap, ss |-> c.ss, built |-> TRUE]
  /\ UNCHANGED <<environ, files, rIn, rOut, cIn, mainVars>>

NextChoice == NewChoice

SpecChoice == InitChoice /\ [][NextChoice]_vars

(***************************************************************************)
(* Spec: an app (scope 1) and its subcommand (scope 2) set up their flags  *)
(***************************************************************************)
Scopes == {1, 2}

nMode == <<"m", "o", "d", "e">>
nM == <<"m">>
nOutLegacy == <<"o", "u", "t", ",", " ", "o">>
nOut == <<"o", "u", "t">>
NameU == {nMode, nM, nOut}

vE == <<"E">>
pF == <<"F">>

ModeChoices == [t \in {"fast", "slow"} |-> IF t = "fast" THEN 1 ELSE 2]
ModeChoice == defaultChoice_init(ModeChoices, <<"fast", "slow">>, <<"fast", "slow">>)

DstCell(s, i) == 10 * s + i
PtrCell(s, i) == 100 + 10 * s + i

Sources == {[e |-> <<vE>>, f |-> pF], [e |-> <<>>, f |-> <<>>]}

Default(kind) ==
  CASE kind = "bool" -> VBool(FALSE)
    [] kind = "uint64" -> VUint(30)
    [] kind = "path" -> VStr("d")
    [] kind = "choice" -> IInt(1)

Zero(kind) ==
  CASE kind = "bool" -> VBool(FALSE)
    [] kind = "uint64" -> VUint(0)
    [] kind = "path" -> VStr("")
    [] kind = "choice" -> IInt(0)

\* the declarations the first flag of the app is drawn from
PrimCatalogue(s, i) ==
  {Flag(kind, nMode, <<nM>>, src.e, src.f, Default(kind), dst, NoChoice) :
     kind \in {"bool", "uint64", "path"}, src \in Sources,
     dst \in {INil, IPtr(DstCell(s, i))}}

ChoiceCatalogue(s, i) ==
  {Flag("choice", nMode, <<nM>>, src.e, src.f, val, dst, TheChoice(ModeChoice)) :
     src \in Sources,
     val \in {INil, IInt(1), IPtr(PtrCell(s, i)), INilPtr},
     dst \in {INil, IPtr(DstCell(s, i)), INilPtr, IInt(9)}}
  \cup {Flag("choice", nMode, <<nM>>, <<vE>>, pF, IInt(1), INil, NoChoice)}

\* a pointer default cannot be stored through a destination of the pointee's type
WellTyped(f) == f.Value.k \in {"ptr", "nilptr"} => f.Destination = INil

Catalogue(s, i) == {f \in PrimCatalogue(s, i) \cup ChoiceCatalogue(s, i) : WellTyped(f)}

\* the second flag of the app: a path flag with a v1-style combined name
OutFlag == Flag("path", nOutLegacy, <<>>, <<>>, <<>>, VStr("d"), INil, NoChoice)

\* the flag of the subcommand: same name as the app's first flag
SubFlag(kind, s, i) ==
  Flag(kind, nMode, <<>>, <<vE>>, <<>>,
       IF kind = "choice" THEN IPtr(PtrCell(s, i)) ELSE Default(kind), INil,
       IF kind = "choice" THEN TheChoice(ModeChoice) ELSE NoChoice)

Programs ==
  {[s \in Scopes |-> IF s = 1 THEN <<d, OutFlag>> ELSE <<SubFlag(d.kind, s, 1)>>] :
     d \in Catalogue(1, 1)}

MainEnvironU == {[D \in {} |-> ""]} \cup {[D \in {vE} |-> x] : x \in {"", "1", "fast"}}
MainFilesU == {[D \in {} |-> ""]} \cup {[D \in {pF} |-> x] : x \in {"0", "slow"}}

\* the environments and file systems a run starts from: when the variable
\* exists no file is read, and one readable file stands for all of them
MainWorlds ==
  {w \in [env : MainEnvironU, fs : MainFilesU] :
     DOMAIN w.env # {} => (DOMAIN w.fs # {} /\ w.fs[pF] = "slow")}

\* the tokens the command line gives a flag of each kind
TokensFor(kind) ==
  CASE kind = "bool" -> {"true", "false", "slow"}
    [] kind = "uint64" -> {"7", "0x1e", "slow"}
    [] kind = "path" -> {"slow", "fast"}
    [] kind = "choice" -> {"slow", "fast", "7"}

Init ==
  /\ \E w \in MainWorlds : environ = w.env /\ files = w.fs
  /\ rIn = [envVars |-> <<>>, filePath |-> <<>>]
  /\ rOut = NoRun
  /\ cIn = <<>>
  /\ cReg = NoReg
  /\ prog \in Programs
  /\ flags = [s \in Scopes |->
                [i \in 1..Len(prog[s]) |->
                   [Value |-> prog[s][i].Value, HasBeenSet |-> FALSE]]]
  /\ sets = [s \in Scopes |-> [formal |-> <<>>, actual |-> {}, ran |-> FALSE,
                                err |-> "", next |-> 1]]
  /\ mem = [c \in {DstCell(s, 1) : s \in Scopes} \cup {PtrCell(s, 1) : s \in Scopes} |->
              IF c < 100 THEN Zero(prog[1][1].kind) ELSE IInt(1)]
  /\ ctxs = <<>>
  /\ pc = [scope |-> 0, phase |-> "run"]
  /\ nsets = 0
  /\ last = NoOp

\* the state after flagSet returned r
flagSetReturned(s, r) ==
  /\ flags' = [flags EXCEPT ![s] = r.sts]
  /\ mem' = r.mem
  /\ sets' = [sets EXCEPT ![s] = [formal |-> r.formal, actual |-> {}, ran |-> TRUE,
                                  err |-> r.err, next |-> r.next]]
  /\ pc' = [scope |-> s,
            phase |-> IF r.panic THEN "panic"
                      ELSE IF r.err # "" THEN "failed" ELSE "newContext"]
  /\ last' = [NoOp EXCEPT !.op = "flagSet", !.scope = s, !.err = r.err, !.at = r.next,
                          !.pre = [k |-> "mem", v |-> mem, cell |-> 0]]

\* flagSet(name, flags) for the app (s = 1) or the subcommand that is run next
FlagSetStep(s) ==
  /\ pc = [scope |-> s - 1, phase |-> "run"]
  /\ flagSetReturned(s, flagSet(prog[s], flags[s], mem))
  /\ UNCHANGED <<environ, files, pureVars, prog, ctxs, nsets>>

\* NewContext(app, set, parent): the app's context has no parent, or the bare
\* &Context{} whose flag set is nil; a subcommand's parent is the context of
\* the scope above, and the subcommand assigns itself to context.Command
NewContextStep(s) ==
  /\ pc = [scope |-> s, phase |-> "newContext"]
  /\ IF s = 1
     THEN \E bare \in BOOLEAN :
            ctxs' = IF bare
                    THEN NewContext(TheApp, s, 1,
                           <<[App |-> NilApp, flagSet |-> NilSet, parentContext |-> 0,
                              Command |-> NilCmd]>>)
                    ELSE NewContext(TheApp, s, 0, <<>>)
     ELSE ctxs' = [NewContext(TheApp, s, Len(ctxs), ctxs) EXCEPT ![Len(ctxs) + 1].Command = s]
  /\ pc' = [scope |-> s, phase |-> "run"]
  /\ last' = [NoOp EXCEPT !.op = "newContext", !.scope = s]
  /\ UNCHANGED <<environ, files, pureVars, prog, flags, sets, mem, nsets>>

\* what the cell behind a registered name holds, nil for an unknown name
Held(fs, name) ==
  IF name \notin DOMAIN fs.formal THEN INil
  ELSE IF fs.formal[name].kind = "choice" THEN choiceValue_Value(fs.formal[name].val, mem)
  ELSE Get(fs.formal[name])

\* the state after c.flagSet.Set(name, value) returned r
setReturned(s, fsid, name, value, r) ==
  /\ sets' = [sets EXCEPT ![fsid] = r.fs]
  /\ mem' = r.mem
  /\ pc' = IF r.panic THEN [scope |-> s, phase |-> "panic"] ELSE pc
  /\ last' = [NoOp EXCEPT !.op = "set", !.scope = s, !.name = name, !.tok = value,
                          !.err = r.err, !.pre = Held(sets[fsid], name)]

\* Context.Set(name, value) on the newest context: one token of the command line
ContextSet(s, name, value) ==
  /\ pc = [scope |-> s, phase |-> "run"]
  /\ s \in Scopes
  /\ nsets < MaxSets
  /\ setReturned(s, ctxs[Len(ctxs)].flagSet, name, value,
                 FlagSet_Set(sets[ctxs[Len(ctxs)].flagSet], name, value, mem,
                             prog[ctxs[Len(ctxs)].flagSet]))
  /\ nsets' = nsets + 1
  /\ UNCHANGED <<environ, files, pureVars, prog, flags, ctxs>>

Next ==
  \/ \E s \in Scopes : FlagSetStep(s)
  \/ \E s \in Scopes : NewContextStep(s)
  \/ \E s \in Scopes, name \in NameU :
       \E value \in TokensFor(prog[s][1].kind) : ContextSet(s, name, value)

Spec == Init /\ [][Next]_vars

(***************************************************************************)
(* SpecParse: the flags are required and have several name forms; after    *)
(* the tokens of a scope the name forms are normalized and the required    *)
(* flags are checked                                                       *)
(***************************************************************************)
nModus == <<"m", "o", "d", "u", "s">>
nO == <<"o">>
nT == <<"t">>

Required(f) == [f EXCEPT !.Required = TRUE]

\* the first flag of the app: required, with two name forms
ParseCatalogue ==
  {Required(Flag("bool", nMode, <<nM>>, <<>>, <<>>, Default("bool"), INil, NoChoice)),
   Required(Flag("uint64", nMode, <<nM>>, <<vE>>, pF, Default("uint64"),
                 IPtr(DstCell(1, 1)), NoChoice)),
   Required(Flag("path", nMode, <<nModus>>, <<>>, <<>>, Default("path"), INil, NoChoice)),
   Required(Flag("path", nM, <<nO>>, <<>>, <<>>, Default("path"), INil, NoChoice)),
   Required(Flag("choice", nMode, <<nM>>, <<>>, <<>>, IInt(1), IPtr(DstCell(1, 1)),
                 TheChoice(ModeChoice))),
   Required(Flag("choice", nMode, <<nM>>, <<>>, <<>>, IPtr(PtrCell(1, 1)), INil,
                 TheChoice(ModeChoice)))}

\* the second flag of the app: optional, with two name forms
OutAlias == Flag("path", nOut, <<nT>>, <<>>, <<>>, VStr("d"), INil, NoChoice)

\* the flag of the subcommand: required, one name, the name of the app's flag
ParseSub(kind) ==
  Required(Flag(kind, nMode, <<>>, <<>>, <<>>,
                IF kind = "choice" THEN IPtr(PtrCell(2, 1)) ELSE Default(kind), INil,
                IF kind = "choice" THEN TheChoice(ModeChoice) ELSE NoChoice))

ParsePrograms ==
  {[s \in Scopes |-> IF s = 1 THEN <<d, OutAlias>> ELSE <<ParseSub(d.kind)>>] :
     d \in ParseCatalogue}

ParseWorlds ==
  {[env |-> [D \in {} |-> ""], fs |-> [D \in {} |-> ""]],
   [env |-> [D \in {} |-> ""], fs |-> [D \in {pF} |-> "0"]],
   [env |-> [D \in {vE} |-> "1"], fs |-> [D \in {pF} |-> "0"]]}

InitParse ==
  /\ \E w \in ParseWorlds : environ = w.env /\ files = w.fs
  /\ rIn = [envVars |-> <<>>, filePath |-> <<>>]
  /\ rOut = NoRun
  /\ cIn = <<>>
  /\ cReg = NoReg
  /\ prog \in ParsePrograms
  /\ flags = [s \in Scopes |->
                [i \in 1..Len(prog[s]) |->
                   [Value |-> prog[s][i].Value, HasBeenSet |-> FALSE]]]
  /\ sets = [s \in Scopes |-> [formal |-> <<>>, actual |-> {}, ran |-> FALSE,
                                err |-> "", next |-> 1]]
  /\ mem = [c \in {DstCell(s, 1) : s \in Scopes} \cup {PtrCell(s, 1) : s \in Scopes} |->
              IF c < 100 THEN Zero(prog[1][1].kind) ELSE IInt(1)]
  /\ ctxs = <<>>
  /\ pc = [scope |-> 0, phase |-> "run"]
  /\ nsets = 0
  /\ last = NoOp

\* the state after normalizeFlags returned r
normalized(s, r) ==
  /\ sets' = [sets EXCEPT ![s] = r.fs]
  /\ mem' = r.mem
  /\ pc' = IF r.panic THEN [scope |-> s, phase |-> "panic"] ELSE pc
  /\ last' = [NoOp EXCEPT !.op = "normalizeFlags", !.scope = s, !.err = r.err,
                          !.pre = [k |-> "scope", v |-> [set |-> sets[s], mem |-> mem],
                                   cell |-> 0]]

\* normalizeFlags(flags, set) of the scope whose tokens were given
NormalizeStep(s) ==
  /\ pc = [scope |-> s, phase |-> "run"]
  /\ s \in Scopes
  /\ normalized(s, normalizeFlags(prog[s], sets[s], mem))
  /\ UNCHANGED <<environ, files, pureVars, prog, flags, ctxs, nsets>>

\* the state after checkRequiredFlags returned the names in missing
requiredReturned(s, c, missing) ==
  last' = [NoOp EXCEPT !.op = "checkRequiredFlags", !.scope = s,
                       !.err = IF missing = <<>> THEN "" ELSE "required",
                       !.pre = [k |-> "missing", v |-> missing, cell |-> c]]

\* context.checkRequiredFlags(flags) on the newest context with the flags of
\* its scope
RequiredStep(s) ==
  /\ pc = [scope |-> s, phase |-> "run"]
  /\ s \in Scopes
  /\ requiredReturned(s, Len(ctxs), Context_checkRequiredFlags(Len(ctxs), prog[s]))
  /\ UNCHANGED <<environ, files, pureVars, prog, flags, sets, mem, ctxs, pc, nsets>>

NextParse ==
  \/ \E s \in Scopes : FlagSetStep(s)
  \/ \E s \in Scopes : NewContextStep(s)
  \/ \E s \in Scopes : \E name \in DOMAIN sets[s].formal :
       \E value \in TokensFor(prog[s][1].kind) : ContextSet(s, name, value)
  \/ \E s \in Scopes : NormalizeStep(s)
  \/ \E s \in Scopes : RequiredStep(s)

SpecParse == InitParse /\ [][NextParse]_vars

(***************************************************************************)
(* what the sources hold, read off the environment and the file system     *)
(***************************************************************************)
Least(S) == CHOOSE x \in S : \A y \in S : x <= y

\* the listed variables that exist, by position
Existing(envVars) ==
  {i \in 1..Len(envVars) :
     TrimSpace(envVars[i]) # <<>> /\ TrimSpace(envVars[i]) \in DOMAIN environ}

\* the positions after which a file candidate starts: 0 and every comma
Starts(fp) == {0} \cup {i \in 1..Len(fp) : fp[i] = ","}

\* the candidate that starts after position a and ends before the next comma
CandAt(fp, a) ==
  SubSeq(fp, a + 1, Least({b \in (a + 1)..(Len(fp) + 1) : b = Len(fp) + 1 \/ fp[b] = ","}) - 1)

Readable(fp) == {a \in Starts(fp) : CandAt(fp, a) \in DOMAIN files}

\* the value of the first existing variable, else of the first readable file
Expected(envVars, fp) ==
  IF Existing(envVars) # {}
  THEN [val |-> environ[TrimSpace(envVars[Least(Existing(envVars))])], ok |-> TRUE]
  ELSE IF Readable(fp) # {}
       THEN [val |-> files[CandAt(fp, Least(Readable(fp)))], ok |-> TRUE]
       ELSE [val |-> "", ok |-> FALSE]

(***************************************************************************)
(* C2: flagFromEnvOrFile returns the value of the first listed environment *)
(* variable that exists, also when that value is empty; if none exists,    *)
(* the contents of the first comma-separated file candidate that can be    *)
(* read, skipping unreadable ones; otherwise not-found.                    *)
(***************************************************************************)
C2_ResolverOrder ==
  rOut.done => [val |-> rOut.val, ok |-> rOut.ok] = Expected(rIn.envVars, rIn.filePath)

\* the first listed variable is absent, a later one exists and is empty, and a
\* file could have been read
C2_EmptyVariableWins ==
  /\ rOut.done
  /\ Existing(rIn.envVars) # {}
  /\ Least(Existing(rIn.envVars)) > 1
  /\ environ[TrimSpace(rIn.envVars[Least(Existing(rIn.envVars))])] = ""
  /\ Readable(rIn.filePath) # {}
  /\ rOut.ok /\ rOut.val = ""

(***************************************************************************)
(* C10: for a registry built by NewChoice from a mapping with pairwise     *)
(* distinct values, FromString(ToString(v)) = v for every value of the     *)
(* mapping, ToString(FromString(t)) = t for every token of the mapping,    *)
(* FromString of a token outside the mapping is nil, and ToString of a     *)
(* value outside the mapping is the empty string.                          *)
(***************************************************************************)
Injective(m) == \A a, b \in DOMAIN m : m[a] = m[b] => a = b

C10_RoundTrip ==
  (cReg.built /\ Injective(cIn)) =>
    /\ \A t \in DOMAIN cIn :
         /\ FromString(cReg, ToString(cReg, IInt(cIn[t]))) = IInt(cIn[t])
         /\ ToString(cReg, FromString(cReg, t)) = t
    /\ \A t \in (TokenU \cup {"medium"}) \ DOMAIN cIn : FromString(cReg, t) = INil
    /\ \A v \in (0..(MaxVal + 1)) \ {cIn[t] : t \in DOMAIN cIn} : ToString(cReg, IInt(v)) = ""
    /\ ToString(cReg, INil) = ""

\* a registry of three tokens, the empty token among them, with distinct values
C10_ThreeTokens ==
  /\ cReg.built
  /\ Injective(cIn)
  /\ DOMAIN cIn = TokenU
  /\ DOMAIN cReg.sMap = {IInt(cIn[t]) : t \in TokenU}

(***************************************************************************)
(* the flags of a scope, as the claims speak of them                       *)
(***************************************************************************)
FlagNames(s, i) == {Names(prog[s][i])[j] : j \in 1..Len(Names(prog[s][i]))}

\* the declaration as written: the compiled-in default, not set
Initial(s, i) == [Value |-> prog[s][i].Value, HasBeenSet |-> FALSE]

\* what the environment and the files hold for a declaration
SourceOf(f) == Expected(f.EnvVars, f.FilePath)

\* flagSet reached flag i of scope s / applied it without error
Reached(s, i) == sets[s].ran /\ sets[s].next >= i
AppliedOK(s, i) == sets[s].ran /\ i < sets[s].next

\* the text parses as a value of the declaration's kind
ParsesAs(f, v) ==
  CASE f.kind = "bool" -> ParseBool(v).ok
    [] f.kind = "uint64" -> ParseUint(v).ok
    [] f.kind = "path" -> TRUE
    [] f.kind = "choice" -> ~f.Choice.nil /\ v \in DOMAIN f.Choice.c.vMap

\* the value the text stands for
Decode(f, v) ==
  CASE f.kind = "bool" -> VBool(ParseBool(v).v)
    [] f.kind = "uint64" -> VUint(ParseUint(v).v)
    [] f.kind = "path" -> VStr(v)
    [] f.kind = "choice" -> IInt(f.Choice.c.vMap[v])

\* bool and uint64 take an empty source value as no value
EmptyIgnored(f) == f.kind \in {"bool", "uint64"} /\ SourceOf(f).val = ""

\* no name of the flag is registered in the scope's flag set
Unregistered(s, i) == FlagNames(s, i) \cap DOMAIN sets[s].formal = {}

\* the typed accessor of the declaration's kind
Accessor(f, c, name) ==
  CASE f.kind = "bool" -> VBool(Context_Bool(c, name))
    [] f.kind = "uint64" -> VUint(Context_Uint64(c, name))
    [] f.kind = "path" -> VStr(Context_Path(c, name))
    [] f.kind = "choice" -> Context_Choice(c, name)

\* the declaration behind the name of the last Set
LastFlag == prog[last.scope][sets[last.scope].formal[last.name].owner]

\* the last operation was a Set of a registered name
LastSet == last.op = "set" /\ last.name \in DOMAIN sets[last.scope].formal

(***************************************************************************)
(* C3 as stated: after Apply returns without error, HasBeenSet is true if  *)
(* and only if the resolver found a value in an environment variable or a  *)
(* file; an existing variable always makes it true.                        *)
(***************************************************************************)
C3_SetIffFound ==
  \A s \in Scopes : \A i \in 1..Len(prog[s]) :
    AppliedOK(s, i) => (flags[s][i].HasBeenSet <=> SourceOf(prog[s][i]).ok)

(***************************************************************************)
(* C3: after Apply returns without error, HasBeenSet is true if and only   *)
(* if the resolver found a value and, for the bool and uint64 kinds, that  *)
(* value is not empty; no match leaves it false.                           *)
(***************************************************************************)
C3_SetIffNonEmptyFound ==
  \A s \in Scopes : \A i \in 1..Len(prog[s]) :
    AppliedOK(s, i) =>
      (flags[s][i].HasBeenSet <=>
         (SourceOf(prog[s][i]).ok /\ ~EmptyIgnored(prog[s][i])))

\* a bool or uint64 flag whose variable exists and is empty was applied and
\* is not set
C3_EmptyLeavesUnset ==
  \E s \in Scopes : \E i \in 1..Len(prog[s]) :
    /\ AppliedOK(s, i)
    /\ Existing(prog[s][i].EnvVars) # {}
    /\ EmptyIgnored(prog[s][i])
    /\ ~flags[s][i].HasBeenSet

(***************************************************************************)
(* C4 as stated: for the bool, uint64 and choice kinds, whenever the value *)
(* found fails the kind's parsing, Apply returns an error, Value and       *)
(* HasBeenSet are unchanged, no name of the flag is registered and flagSet *)
(* aborts without applying the remaining flags.                            *)
(***************************************************************************)
Malformed(s, i) ==
  /\ Reached(s, i)
  /\ prog[s][i].kind \in {"bool", "uint64", "choice"}
  /\ ~prog[s][i].Choice.nil \/ prog[s][i].kind # "choice"
  /\ SourceOf(prog[s][i]).ok
  /\ ~ParsesAs(prog[s][i], SourceOf(prog[s][i]).val)

Aborted(s, i) ==
  /\ sets[s].err = "parse" /\ sets[s].next = i
  /\ flags[s][i] = Initial(s, i)
  /\ \A j \in i..Len(prog[s]) : Unregistered(s, j)
  /\ \A j \in (i + 1)..Len(prog[s]) : flags[s][j] = Initial(s, j)
  /\ \A c \in 1..Len(ctxs) : ctxs[c].flagSet # s
  /\ pc.scope = s => pc.phase = "failed"

C4_MalformedAborts ==
  \A s \in Scopes : \A i \in 1..Len(prog[s]) : Malformed(s, i) => Aborted(s, i)

(***************************************************************************)
(* C4: the same for every malformed value but the empty one of the bool    *)
(* and uint64 kinds, which Apply takes as no value: it returns no error,   *)
(* leaves Value and HasBeenSet unchanged and registers the flag's names.   *)
(***************************************************************************)
C4_MalformedAbortsUnlessEmpty ==
  \A s \in Scopes : \A i \in 1..Len(prog[s]) :
    Malformed(s, i) =>
      IF EmptyIgnored(prog[s][i])
      THEN /\ AppliedOK(s, i)
           /\ flags[s][i] = Initial(s, i)
           /\ FlagNames(s, i) \subseteq DOMAIN sets[s].formal
      ELSE Aborted(s, i)

\* a malformed value stopped flagSet before the last flag of the scope
C4_AbortedBeforeLast ==
  \E s \in Scopes : \E i \in 1..Len(prog[s]) :
    /\ Malformed(s, i) /\ ~EmptyIgnored(prog[s][i])
    /\ i < Len(prog[s])
    /\ sets[s].err = "parse"

(***************************************************************************)
(* the scopes of a context's lineage                                       *)
(***************************************************************************)
\* the flag set of the j-th context of the lineage, self first
ScopeSet(c, j) == FS(ctxs[Lineage(c)[j]].flagSet)

\* the positions of the lineage whose flag set declares the name and has it
\* visited
Visited(c, name) ==
  {j \in 1..Len(Lineage(c)) :
     name \in DOMAIN ScopeSet(c, j).formal /\ name \in ScopeSet(c, j).actual}

\* the value an entry of a flag set holds: through the pointer if it has one,
\* nothing behind a nil pointer
HeldBy(e) ==
  CASE e.val.k = "ptr" -> mem[e.val.cell]
    [] e.val.k = "nilptr" -> INil
    [] OTHER -> e.val

Contexts == 1..Len(ctxs)

\* values are compared kind first: values of different kinds are different
Same(a, b) == a.k = b.k /\ a.v = b.v /\ a.cell = b.cell

NoValue(a) == a.k = "nil"

(***************************************************************************)
(* C5: Context.Value(name) and the typed accessors return the value held   *)
(* by the nearest scope, from self to root, whose flag set declares the    *)
(* name and has it visited; when no scope of the lineage has it visited    *)
(* the result is no value (nil, false, 0, the empty string).               *)
(***************************************************************************)
C5_NearestVisited ==
  \A c \in Contexts : \A name \in NameU :
    IF Visited(c, name) = {}
    THEN /\ NoValue(Context_Value(c, name))
         /\ Context_Bool(c, name) = FALSE
         /\ Context_Uint64(c, name) = 0
         /\ Context_Path(c, name) = ""
         /\ NoValue(Context_Choice(c, name))
    ELSE LET e == ScopeSet(c, Least(Visited(c, name))).formal[name]
         IN CASE e.kind = "bool" ->
                   Same(Context_Value(c, name), HeldBy(e)) /\ Context_Bool(c, name) = HeldBy(e).v
              [] e.kind = "uint64" ->
                   Same(Context_Value(c, name), HeldBy(e)) /\ Context_Uint64(c, name) = HeldBy(e).v
              [] e.kind = "path" ->
                   Same(Context_Value(c, name), HeldBy(e)) /\ Context_Path(c, name) = HeldBy(e).v
              [] e.kind = "choice" ->
                   /\ Same(Context_Value(c, name), choiceValue_Get(e.val))
                   /\ Same(Context_Choice(c, name), HeldBy(e))

\* a subcommand's context and its parent both have the name visited, with
\* different values
C5_ChildShadowsParent ==
  \E c \in Contexts :
    /\ Cardinality(Visited(c, nMode)) = 2
    /\ \A j \in Visited(c, nMode) : ScopeSet(c, j).formal[nMode].kind = "uint64"
    /\ \E j, k \in Visited(c, nMode) :
         ~Same(HeldBy(ScopeSet(c, j).formal[nMode]), HeldBy(ScopeSet(c, k).formal[nMode]))

(***************************************************************************)
(* C6: Context.IsSet(name) is true exactly when some scope of the lineage  *)
(* owns a flag with HasBeenSet true whose names contain the name, or has   *)
(* the name visited in its flag set.                                       *)
(***************************************************************************)
OwnsSet(s, name) ==
  /\ s \in Scopes
  /\ \E i \in 1..Len(prog[s]) : flags[s][i].HasBeenSet /\ name \in FlagNames(s, i)

C6_IsSet ==
  \A c \in Contexts : \A name \in NameU \cup {nOutLegacy} :
    Context_IsSet(c, name) <=>
      \E j \in 1..Len(Lineage(c)) :
         \/ OwnsSet(ctxs[Lineage(c)[j]].flagSet, name)
         \/ name \in ScopeSet(c, j).actual

\* in a subcommand's context, an alias that only the app's flag was given, by
\* the environment or a file, and that no command line mentioned
C6_SetByAncestorSource ==
  \E c \in Contexts :
    /\ ctxs[c].flagSet = 2
    /\ flags[1][1].HasBeenSet /\ ~flags[2][1].HasBeenSet
    /\ \A j \in 1..Len(Lineage(c)) : ScopeSet(c, j).actual = {}
    /\ Context_IsSet(c, nM)

(***************************************************************************)
(* C7 as stated: a flag with default d, no listed variable existing, no    *)
(* file and no command-line token: Value(name) on the context equals d     *)
(* (as the untyped value or through the typed accessor) and IsSet is false.*)
(***************************************************************************)
OnlyDefault(c) ==
  /\ ctxs[c].flagSet = 1
  /\ nsets = 0
  /\ ~SourceOf(prog[1][1]).ok

C7_ValueIsDefault ==
  \A c \in Contexts : \A name \in FlagNames(1, 1) :
    OnlyDefault(c) =>
      /\ \/ Same(Context_Value(c, name), prog[1][1].Value)
         \/ Same(Accessor(prog[1][1], c, name), prog[1][1].Value)
      /\ ~Context_IsSet(c, name)

(***************************************************************************)
(* C7: in that case the flag's own Value is d and its IsSet() is false;    *)
(* the context has no value for the name: Value(name) is nil, the typed    *)
(* accessors return false, 0, "" and nil, and IsSet(name) is false.        *)
(***************************************************************************)
C7_DefaultStaysInFlag ==
  /\ \A s \in Scopes : \A i \in 1..Len(prog[s]) :
       (AppliedOK(s, i) /\ ~SourceOf(prog[s][i]).ok) => flags[s][i] = Initial(s, i)
  /\ \A c \in Contexts : \A name \in FlagNames(1, 1) :
       OnlyDefault(c) =>
         /\ NoValue(Context_Value(c, name))
         /\ Context_Bool(c, name) = FALSE
         /\ Context_Uint64(c, name) = 0
         /\ Context_Path(c, name) = ""
         /\ NoValue(Context_Choice(c, name))
         /\ ~Context_IsSet(c, name)

\* the uint64 flag with default 30, its variable unset, applied and a context
\* created
C7_TimeoutScenario ==
  \E c \in Contexts :
    /\ OnlyDefault(c)
    /\ prog[1][1].kind = "uint64" /\ prog[1][1].EnvVars # <<>>
    /\ flags[1][1] = [Value |-> VUint(30), HasBeenSet |-> FALSE]
    /\ Context_Uint64(c, nMode) = 0

(***************************************************************************)
(* C1: the value a flag resolves to comes from the highest-precedence      *)
(* source present: a command-line token overrides an environment match,    *)
(* an environment match a file match, a file match the default. A source   *)
(* value the flag kind takes as no value (the empty one, for bool and      *)
(* uint64) counts as absent.                                               *)
(***************************************************************************)
C1_Precedence ==
  /\ \A s \in Scopes : \A i \in 1..Len(prog[s]) :
       AppliedOK(s, i) =>
         flags[s][i].Value =
           IF SourceOf(prog[s][i]).ok /\ ~EmptyIgnored(prog[s][i])
           THEN Decode(prog[s][i], SourceOf(prog[s][i]).val)
           ELSE prog[s][i].Value
  /\ (LastSet /\ ParsesAs(LastFlag, last.tok)) =>
       /\ pc.phase # "panic"
       /\ last.err = ""
       /\ Same(Accessor(LastFlag, Len(ctxs), last.name), Decode(LastFlag, last.tok))

(***************************************************************************)
(* C8: after the command line supplies a registered token t for a choice   *)
(* flag's name, Context.Choice(name) equals the registry value of t and    *)
(* the flag's GetValue() equals t, with or without a default value and     *)
(* with or without a destination.                                          *)
(***************************************************************************)
C8_ChoiceFromToken ==
  (LastSet /\ LastFlag.kind = "choice" /\ ParsesAs(LastFlag, last.tok)) =>
    /\ pc.phase # "panic"
    /\ Same(Context_Choice(Len(ctxs), last.name), Decode(LastFlag, last.tok))
    /\ ChoiceFlag_GetValue(LastFlag,
                           flags[last.scope][sets[last.scope].formal[last.name].owner])
         = last.tok

(***************************************************************************)
(* C9: Set(token) of a choice-binding value with a token that is not in    *)
(* the registry reports a parse error and leaves the owned cell or the     *)
(* destination as it was, in every storage state.                          *)
(***************************************************************************)
C9_UnknownTokenRejected ==
  (LastSet /\ LastFlag.kind = "choice" /\ ~ParsesAs(LastFlag, last.tok)) =>
    /\ last.err = "parse"
    /\ Same(Held(sets[last.scope], last.name), last.pre)
    /\ last.name \notin sets[last.scope].actual

(***************************************************************************)
(* C11: Lineage() of a context with no parent is exactly that context;     *)
(* Lineage() of a context at depth k below the root has length k + 1,      *)
(* starts with the context itself, ends with the root, and each element is *)
(* the parent of the one before it; the walk terminates because a parent   *)
(* exists before its child.                                                *)
(***************************************************************************)
Parent(c) == ctxs[c].parentContext

\* a is reached from c by following n - 1 parent references
Above(c, a, n) ==
  \E p \in [1..n -> Contexts] :
    p[1] = c /\ p[n] = a /\ \A i \in 1..(n - 1) : p[i + 1] = Parent(p[i])

\* the number of proper ancestors of c
Depth(c) == Cardinality({a \in Contexts : \E n \in 2..Len(ctxs) : Above(c, a, n)})

C11_Lineage ==
  \A c \in Contexts :
    /\ Parent(c) < c
    /\ Len(Lineage(c)) = Depth(c) + 1
    /\ Lineage(c)[1] = c
    /\ Parent(Lineage(c)[Len(Lineage(c))]) = 0
    /\ \A j \in 1..(Len(Lineage(c)) - 1) : Lineage(c)[j + 1] = Parent(Lineage(c)[j])
    /\ Parent(c) = 0 => Lineage(c) = <<c>>

\* a subcommand's context below the app's context below a bare context
C11_DepthTwo ==
  \E c \in Contexts : Depth(c) = 2 /\ Len(Lineage(c)) = 3 /\ ctxs[c].flagSet = 2

(***************************************************************************)
(* C12: a choice flag applied with a destination that is a nil pointer or  *)
(* not a pointer makes Apply return a setup error before any name of the   *)
(* flag is registered and before anything is written.                      *)
(***************************************************************************)
BadDestination(s, i) ==
  /\ Reached(s, i)
  /\ prog[s][i].kind = "choice" /\ ~prog[s][i].Choice.nil
  /\ prog[s][i].Destination.k \in {"nilptr", "int"}
  /\ SourceOf(prog[s][i]).ok => ParsesAs(prog[s][i], SourceOf(prog[s][i]).val)

C16_DestinationWrites ==
  /\ (LastSet /\ LastFlag.Destination.k = "ptr") =>
       IF last.err # ""
       THEN Same(mem[LastFlag.Destination.cell], last.pre)
       ELSE ParsesAs(LastFlag, last.tok) =>
              Same(mem[LastFlag.Destination.cell], Decode(LastFlag, last.tok))
  /\ \A s \in Scopes : \A i \in 1..Len(prog[s]) :
       (/\ last.op = "flagSet" /\ last.scope = s
        /\ sets[s].err # "" /\ sets[s].next = i
        /\ prog[s][i].Destination.k = "ptr") =>
         Same(mem[prog[s][i].Destination.cell], last.pre.v[prog[s][i].Destination.cell])

(***************************************************************************)
(* normalization of name forms                                             *)
(***************************************************************************)
Forms(f) == {Names(f)[j] : j \in 1..Len(Names(f))}

\* the name forms of f the flag set fs has as visited
VisitedForms(f, fs) == Forms(f) \cap fs.actual

\* what the cell behind a registered name holds in the memory m
HeldIn(fs, name, m) ==
  IF name \notin DOMAIN fs.formal THEN INil
  ELSE IF fs.formal[name].kind = "choice" THEN choiceValue_Value(fs.formal[name].val, m)
  ELSE interfaceOf(fs.formal[name].val, m)

\* the last operation was normalizeFlags and it returned
Normalized == last.op = "normalizeFlags" /\ pc.phase # "panic"

\* the flags of the normalized scope that have more than one name form
ManyForms == {i \in 1..Len(prog[last.scope]) : Len(Names(prog[last.scope][i])) > 1}

\* the flag set and the memory normalizeFlags started from
SetBefore == last.pre.v.set
MemBefore == last.pre.v.mem

(***************************************************************************)
(* C13: normalizeFlags over one scope returns an error exactly when some   *)
(* flag with more than one name form had more than one form visited.  When *)
(* it returns no error, a flag with exactly one visited form has every     *)
(* name form visited afterwards, every form holds the value the visited    *)
(* form held, and the typed lookup by any form returns one value; a flag   *)
(* with no visited form keeps its values and stays unvisited, and if no    *)
(* flag had a visited form the flag set and the memory are unchanged.      *)
(***************************************************************************)
C13_Normalize ==
  Normalized =>
    /\ last.err # "" <=>
         \E i \in ManyForms : Cardinality(VisitedForms(prog[last.scope][i], SetBefore)) > 1
    /\ last.err = "" =>
         \A i \in ManyForms :
            /\ Cardinality(VisitedForms(prog[last.scope][i], SetBefore)) = 1 =>
                 \A n \in Forms(prog[last.scope][i]) :
                    /\ n \in sets[last.scope].actual
                    /\ \A v \in VisitedForms(prog[last.scope][i], SetBefore) :
                         /\ Same(Held(sets[last.scope], n), HeldIn(SetBefore, v, MemBefore))
                         /\ Same(Accessor(prog[last.scope][i], Len(ctxs), n),
                                 Accessor(prog[last.scope][i], Len(ctxs), v))
            /\ VisitedForms(prog[last.scope][i], SetBefore) = {} =>
                 \A n \in Forms(prog[last.scope][i]) :
                    /\ n \notin sets[last.scope].actual
                    /\ Same(Held(sets[last.scope], n), HeldIn(SetBefore, n, MemBefore))
    /\ (\A i \in ManyForms : VisitedForms(prog[last.scope][i], SetBefore) = {}) =>
         sets[last.scope] = SetBefore /\ mem = MemBefore

\* one form was given a token and normalizeFlags gave its value to a sibling
\* that held another value
C13_CopiedToSibling ==
  /\ Normalized
  /\ last.err = ""
  /\ \E i \in ManyForms :
       /\ Cardinality(VisitedForms(prog[last.scope][i], SetBefore)) = 1
       /\ \E n \in Forms(prog[last.scope][i]) \ SetBefore.actual :
            /\ n \in sets[last.scope].actual
            /\ ~Same(HeldIn(SetBefore, n, MemBefore), Held(sets[last.scope], n))

(***************************************************************************)
(* the required-flag check                                                 *)
(***************************************************************************)
\* the last operation was checkRequiredFlags, called on CheckedContext
Checked == last.op = "checkRequiredFlags"
CheckedContext == last.pre.cell
Missing == last.pre.v

\* the name forms in declaration order: the primary name, then the aliases
Declared(f) == flagNames(f.Name, f.Aliases)

LongForms(f) == {j \in 1..Len(Declared(f)) : Len(Declared(f)[j]) > 1}

\* a required flag none of whose name forms the context reports as set
Unsatisfied(c, f) ==
  f.Required /\ \A j \in 1..Len(Declared(f)) : ~Context_IsSet(c, Declared(f)[j])

RECURSIVE FirstLongNames(_, _, _)
\* the report C14 describes: the first long name form of every unsatisfied
\* required flag that has one
FirstLongNames(c, fl, i) ==
  IF i > Len(fl) THEN <<>>
  ELSE (IF Unsatisfied(c, fl[i]) /\ LongForms(fl[i]) # {}
        THEN <<Declared(fl[i])[Least(LongForms(fl[i]))]>> ELSE <<>>)
       \o FirstLongNames(c, fl, i + 1)

(***************************************************************************)
(* C14 as stated: checkRequiredFlags returns success when every required   *)
(* flag has a name form that is set, and otherwise an error that lists,    *)
(* for each required flag with no form set, the first name form of more    *)
(* than one character in declaration order, and nothing for a flag whose   *)
(* forms all have one character.  The code reports the last such form, and *)
(* succeeds when the only unsatisfied flags have one-character names.      *)
(***************************************************************************)
C14_FirstLongName ==
  Checked =>
    /\ last.err = "" <=>
         \A i \in 1..Len(prog[last.scope]) :
            ~Unsatisfied(CheckedContext, prog[last.scope][i])
    /\ Missing = FirstLongNames(CheckedContext, prog[last.scope], 1)

\* no name form of the flag was set in its own scope: not by a token, and
\* not from the environment or a file
UnsetInScope(s, i) ==
  /\ ~flags[s][i].HasBeenSet
  /\ Forms(prog[s][i]) \cap sets[s].actual = {}

(***************************************************************************)
(* C15 as stated: the required-flag check of a scope consults only that    *)
(* scope, so a required flag with a long name none of whose forms was set  *)
(* in the scope is reported missing whatever an ancestor scope has set.    *)
(* The code asks Context.IsSet, which walks the lineage and the app flags. *)
(***************************************************************************)
C15_OwnScopeOnly ==
  Checked =>
    \A i \in 1..Len(prog[last.scope]) :
       (/\ prog[last.scope][i].Required
        /\ LongForms(prog[last.scope][i]) # {}
        /\ UnsetInScope(last.scope, i)) =>
         \E j \in 1..Len(Missing) : Missing[j] \in Forms(prog[last.scope][i])

====
